---- MODULE Spec2Model ----
(***************************************************************************)
(* Model of src/app.py: parse_time, combine_captions and parse_srt.        *)
(* Text is a sequence of one-character strings, a caption is a record      *)
(* [index, content, start, end], an optional limit is None or <<n>>.       *)
(***************************************************************************)
EXTENDS Integers, Sequences, FiniteSets, TLC

VARIABLES
    pc,               \* position in the program
    srt_string,       \* parse_srt: the text being parsed
    blocks,           \* parse_srt: srt_string.split('\n\n')
    block_idx,        \* parse_srt: number of blocks the for loop has consumed
    current_index,    \* parse_srt: current_index
    srt_list,         \* the raw captions (parse_srt's list, combine_captions' argument)
    char_limit,       \* char_limit argument
    millis_limit,     \* millis_limit argument
    pos,              \* combine_captions: number of captions the for loop has consumed
    current_caption,  \* combine_captions: current_caption
    start_time,       \* combine_captions: start_time
    combined_list,    \* combine_captions: combined_list
    merged,           \* history: positions of the raw captions that make up current_caption
    sources,          \* history: for each element of combined_list, the positions merged into it
    read_last,        \* history: TRUE once srt_list[-1] has been evaluated
    result            \* what the call returned or raised

vars == <<pc, srt_string, blocks, block_idx, current_index, srt_list, char_limit,
          millis_limit, pos, current_caption, start_time, combined_list, merged,
          sources, read_last, result>>

----------------------------------------------------------------------------
(* Bounds of the model *)

MaxCaptions == 3
MaxBlocks == 3
MaxCharLimit == 4

----------------------------------------------------------------------------
(* Python values *)

None == <<>>
Some(n) == <<n>>

\* the message of a call that raised nothing
NoMessage == [prefix |-> "", cause |-> "", block |-> <<>>]

\* str.strip() removes these from both ends
Whitespace == {" ", "\n", "\t", "\r"}

RECURSIVE LStrip(_)
LStrip(s) ==
    IF s # <<>> /\ Head(s) \in Whitespace THEN LStrip(Tail(s)) ELSE s

RECURSIVE RStrip(_)
RStrip(s) ==
    IF s # <<>> /\ s[Len(s)] \in Whitespace THEN RStrip(SubSeq(s, 1, Len(s) - 1)) ELSE s

\* str.lstrip() in place of str.strip()
StripLeftOnly(s) == LStrip(s)

\* str.strip()
Strip(s) == RStrip(LStrip(s))


\* s[i..] begins with p
MatchesAt(s, i, p) ==
    /\ i >= 1
    /\ i + Len(p) - 1 <= Len(s)
    /\ SubSeq(s, i, i + Len(p) - 1) = p

\* str.startswith
StartsWith(s, p) == MatchesAt(s, 1, p)

\* the lowest position >= i where `sub` occurs in s, 0 when there is none
RECURSIVE FindFrom(_, _, _)
FindFrom(s, sub, i) ==
    IF i + Len(sub) - 1 > Len(s) THEN 0
    ELSE IF MatchesAt(s, i, sub) THEN i
    ELSE FindFrom(s, sub, i + 1)

\* str.find, 1-based; 0 when `sub` does not occur
Find(s, sub) == FindFrom(s, sub, 1)

\* `sub in s`
Contains(s, sub) == Find(s, sub) # 0

\* str.split(sep), sep non-empty
RECURSIVE Split(_, _)
Split(s, sep) ==
    LET i == Find(s, sep)
    IN  IF i = 0
        THEN <<s>>
        ELSE <<SubSeq(s, 1, i - 1)>> \o Split(SubSeq(s, i + Len(sep), Len(s)), sep)

\* sep.join(list)
RECURSIVE Join(_, _)
Join(list, sep) ==
    IF list = <<>> THEN <<>>
    ELSE IF Len(list) = 1 THEN list[1]
    ELSE list[1] \o sep \o Join(Tail(list), sep)

\* str.replace(old, new) for single characters
Replace(s, old, new) == [i \in 1..Len(s) |-> IF s[i] = old THEN new ELSE s[i]]

Digits == {"0", "1", "2", "3", "4", "5", "6", "7", "8", "9"}

DigitValue(d) ==
    CASE d = "0" -> 0 [] d = "1" -> 1 [] d = "2" -> 2 [] d = "3" -> 3 [] d = "4" -> 4
      [] d = "5" -> 5 [] d = "6" -> 6 [] d = "7" -> 7 [] d = "8" -> 8 [] d = "9" -> 9

\* int() of a string of digits
RECURSIVE ToInt(_)
ToInt(s) ==
    IF s = <<>> THEN 0
    ELSE ToInt(SubSeq(s, 1, Len(s) - 1)) * 10 + DigitValue(s[Len(s)])

----------------------------------------------------------------------------
(* The regular expressions *)

\* \d+ is greedy: the last position of the run of digits that starts at i (i - 1: no digit)
RECURSIVE RunEnd(_, _)
RunEnd(s, i) ==
    IF i >= 1 /\ i <= Len(s) /\ s[i] \in Digits THEN RunEnd(s, i + 1) ELSE i - 1

\* \d+:\d+:\d+[seps]\d+ matched at position i: the last positions of its four
\* runs of digits, or <<>> when it does not match there
StampAt(s, i, seps) ==
    LET e1 == RunEnd(s, i)
        e2 == RunEnd(s, e1 + 2)
        e3 == RunEnd(s, e2 + 2)
        e4 == RunEnd(s, e3 + 2)
    IN  IF /\ e1 >= i
           /\ e1 + 1 <= Len(s) /\ s[e1 + 1] = ":"
           /\ e2 >= e1 + 2
           /\ e2 + 1 <= Len(s) /\ s[e2 + 1] = ":"
           /\ e3 >= e2 + 2
           /\ e3 + 1 <= Len(s) /\ s[e3 + 1] \in seps
           /\ e4 >= e3 + 2
        THEN <<e1, e2, e3, e4>>
        ELSE <<>>

Arrow == <<" ", "-", "-", ">", " ">>

\* (\d+:\d+:\d+[,\.]\d+) --> (\d+:\d+:\d+[,\.]\d+) matched at position i:
\* the two groups, or <<>>
TimingAt(s, i) ==
    LET a == StampAt(s, i, {",", "."})
    IN  IF a = <<>> \/ ~MatchesAt(s, a[4] + 1, Arrow)
        THEN <<>>
        ELSE LET j == a[4] + 1 + Len(Arrow)
                 b == StampAt(s, j, {",", "."})
             IN  IF b = <<>> THEN <<>>
                 ELSE <<SubSeq(s, i, a[4]), SubSeq(s, j, b[4])>>

\* the groups of the leftmost match of the timing pattern at a position >= i, or <<>>
RECURSIVE TimingFrom(_, _)
TimingFrom(s, i) ==
    IF i > Len(s) THEN <<>>
    ELSE IF TimingAt(s, i) # <<>> THEN TimingAt(s, i)
    ELSE TimingFrom(s, i + 1)

\* re.search of the timing pattern, line 136: the groups of the leftmost match, or <<>>
TimingMatch(timing_line) == TimingFrom(timing_line, 1)

----------------------------------------------------------------------------
(* parse_time *)

\* (hours * 3600 + minutes * 60 + seconds) * 1000 + milliseconds, line 46
Millis(hours, minutes, seconds, milliseconds) ==
    (hours * 3600 + minutes * 60 + seconds) * 1000 + milliseconds

\* the lowest position >= i where \d+:\d+:\d+,\d+ matches, 0 when there is none
RECURSIVE StampFrom(_, _)
StampFrom(s, i) ==
    IF i > Len(s) THEN 0
    ELSE IF StampAt(s, i, {","}) # <<>> THEN i
    ELSE StampFrom(s, i + 1)

\* parse_time: Some(milliseconds), or None when findall(...)[0] raises IndexError
\* (re-raised as ValueError). The four patterns differ only in their group, so
\* they share the leftmost match.
ParseTime(time_string) ==
    LET i == StampFrom(time_string, 1)
    IN  IF i = 0 THEN None
        ELSE LET e == StampAt(time_string, i, {","})
             IN  Some(Millis(ToInt(SubSeq(time_string, i, e[1])),
                             ToInt(SubSeq(time_string, e[1] + 2, e[2])),
                             ToInt(SubSeq(time_string, e[2] + 2, e[3])),
                             ToInt(SubSeq(time_string, e[3] + 2, e[4]))))

----------------------------------------------------------------------------
(* combine_captions *)

\* the join without its separator
NewCaptionNoSpace(cur, trimmed) == cur \o trimmed

\* f"{current_caption} {trimmed_content}"
NewCaption(cur, trimmed) == cur \o <<" ">> \o trimmed

\* an absent limit taken as "no bound" instead of "no merge"
MergeTestUnlimited(new_caption, caption, start, climit, mlimit) ==
    \/ (IF climit = None THEN TRUE ELSE Len(new_caption) <= climit[1])
    \/ (IF mlimit = None THEN TRUE ELSE caption.end - start <= mlimit[1])

\* `and` between the two limits in place of `or`
MergeTestBoth(new_caption, caption, start, climit, mlimit) ==
    /\ (climit # None /\ Len(new_caption) <= climit[1])
    /\ (mlimit # None /\ caption.end - start <= mlimit[1])

\* the joining space left out of the count
MergeTestUncountedSpace(new_caption, caption, start, climit, mlimit) ==
    \/ (climit # None /\ Len(new_caption) - 1 <= climit[1])
    \/ (mlimit # None /\ caption.end - start <= mlimit[1])

\* the condition of the if at lines 78-79
MergeTest(new_caption, caption, start, climit, mlimit) ==
    \/ (climit # None /\ Len(new_caption) <= climit[1])
    \/ (mlimit # None /\ caption.end - start <= mlimit[1])

\* the dictionary appended to combined_list
Combined(content, start, end) == [content |-> content, start |-> start, end |-> end]

\* the closed caption ends at the end of the caption that failed the test
ClosedCaptionOwnEnd(cur, start, caption) == Combined(cur, start, caption.end)

\* start and end of the closed caption swapped
ClosedCaptionSwapped(cur, start, caption) == Combined(cur, caption.start, start)

\* the dictionary appended at line 82, when `caption` fails the merge test
ClosedCaption(cur, start, caption) == Combined(cur, start, caption.start)

\* the end of the last caption that was not skipped, in place of srt_list[-1]
RECURSIVE LastSpokenEnd(_)
LastSpokenEnd(list) ==
    IF Strip(list[Len(list)].content) # <<>> THEN list[Len(list)].end
    ELSE LastSpokenEnd(SubSeq(list, 1, Len(list) - 1))

FinalCaptionLastSpoken(cur, start, list) == Combined(cur, start, LastSpokenEnd(list))

\* the dictionary appended at line 87, after the loop
FinalCaption(cur, start, list) == Combined(cur, start, list[Len(list)].end)

InLoop == pc = "combine" /\ pos < Len(srt_list)
NextRaw == srt_list[pos + 1]

ParseVars == <<srt_string, blocks, block_idx, current_index>>
ArgVars == <<srt_list, char_limit, millis_limit>>

\* lines 69-71: a caption whose stripped content is empty is skipped
SkipEmpty ==
    /\ InLoop
    /\ Strip(NextRaw.content) = <<>>
    /\ pos' = pos + 1
    /\ UNCHANGED <<pc, ParseVars, ArgVars, current_caption, start_time, combined_list,
                   merged, sources, read_last, result>>

\* lines 73-75: nothing pending, the caption starts the accumulator
StartCaption ==
    /\ InLoop
    /\ Strip(NextRaw.content) # <<>>
    /\ current_caption = <<>>
    /\ current_caption' = Strip(NextRaw.content)
    /\ start_time' = NextRaw.start
    /\ merged' = <<pos + 1>>
    /\ pos' = pos + 1
    /\ UNCHANGED <<pc, ParseVars, ArgVars, combined_list, sources, read_last, result>>

\* lines 77-80: the caption passes the merge test and is joined to the accumulator
ExtendCaption ==
    /\ InLoop
    /\ Strip(NextRaw.content) # <<>>
    /\ current_caption # <<>>
    /\ LET new_caption == NewCaption(current_caption, Strip(NextRaw.content))
       IN  /\ MergeTest(new_caption, NextRaw, start_time, char_limit, millis_limit)
           /\ current_caption' = new_caption
    /\ merged' = Append(merged, pos + 1)
    /\ pos' = pos + 1
    /\ UNCHANGED <<pc, ParseVars, ArgVars, start_time, combined_list, sources,
                   read_last, result>>

\* lines 81-84: the caption fails the merge test; the accumulator is emitted and reseeded
CloseCaption ==
    /\ InLoop
    /\ Strip(NextRaw.content) # <<>>
    /\ current_caption # <<>>
    /\ LET new_caption == NewCaption(current_caption, Strip(NextRaw.content))
       IN  ~MergeTest(new_caption, NextRaw, start_time, char_limit, millis_limit)
    /\ combined_list' = Append(combined_list, ClosedCaption(current_caption, start_time, NextRaw))
    /\ sources' = Append(sources, merged)
    /\ current_caption' = Strip(NextRaw.content)
    /\ start_time' = NextRaw.start
    /\ merged' = <<pos + 1>>
    /\ pos' = pos + 1
    /\ UNCHANGED <<pc, ParseVars, ArgVars, read_last, result>>

\* lines 86-89: emit what is pending, with the end of srt_list[-1], and return.
\* srt_list[-1] of an empty list raises IndexError.
ReturnCombined ==
    /\ pc = "combine"
    /\ pos = Len(srt_list)
    /\ IF current_caption # <<>>
       THEN /\ read_last' = TRUE
            /\ IF srt_list = <<>>
               THEN /\ pc' = "raised"
                    /\ result' = [kind |-> "IndexError", value |-> <<>>, message |-> NoMessage]
                    /\ UNCHANGED <<combined_list, sources>>
               ELSE /\ combined_list' = Append(combined_list,
                                               FinalCaption(current_caption, start_time, srt_list))
                    /\ sources' = Append(sources, merged)
                    /\ pc' = "done"
                    /\ result' = [kind |-> "return", value |-> combined_list', message |-> NoMessage]
       ELSE /\ pc' = "done"
            /\ result' = [kind |-> "return", value |-> combined_list, message |-> NoMessage]
            /\ UNCHANGED <<combined_list, sources, read_last>>
    /\ UNCHANGED <<ParseVars, ArgVars, pos, current_caption, start_time, merged>>

CombineNext ==
    \/ SkipEmpty
    \/ StartCaption
    \/ ExtendCaption
    \/ CloseCaption
    \/ ReturnCombined

----------------------------------------------------------------------------
(* Inputs of combine_captions *)

Contents == { <<" ">>, <<"a">>, <<" ", "b", "c", "\n">> }

Times == {0, 1}

CharLimits == {None} \cup {Some(n) : n \in 0..MaxCharLimit}
MillisLimits == {None} \cup {Some(n) : n \in {-1, 0, 1}}

RawCaptions(k) ==
    [index : {k}, content : Contents, start : Times, end : Times]

RawLists ==
    UNION { { f \in [1..n -> UNION {RawCaptions(k) : k \in 1..n}] :
                \A k \in 1..n : f[k].index = k } : n \in 0..MaxCaptions }

\* the state on entry to combine_captions, lines 64-66
EnterCombine ==
    /\ pc = "combine"
    /\ pos = 0
    /\ current_caption = <<>>
    /\ start_time = 0
    /\ combined_list = <<>>
    /\ merged = <<>>
    /\ sources = <<>>
    /\ read_last = FALSE
    /\ result = [kind |-> "none", value |-> <<>>, message |-> NoMessage]

InitCombine ==
    /\ srt_string = <<>>
    /\ blocks = <<>>
    /\ block_idx = 0
    /\ current_index = 1
    /\ srt_list \in RawLists
    /\ char_limit \in CharLimits
    /\ millis_limit \in MillisLimits
    /\ EnterCombine

SpecCombine == InitCombine /\ [][CombineNext]_vars

----------------------------------------------------------------------------
(* parse_srt *)

Newline == <<"\n">>
BlankLine == <<"\n", "\n">>
Webvtt == <<"W", "E", "B", "V", "T", "T">>
ColonSpace == <<":", " ">>

\* the test of the while loop at line 118 on lines[0]
IsHeaderLine(line) ==
    \/ StartsWith(line, Webvtt)
    \/ Contains(line, ColonSpace)
    \/ Strip(line) = <<>>

\* lines 118-119: pop the header and metadata lines off the front
RECURSIVE DropHeader(_)
DropHeader(lines) ==
    IF lines # <<>> /\ IsHeaderLine(lines[1]) THEN DropHeader(Tail(lines)) ELSE lines

\* lines 115-120: the text that is split into blocks
WithoutHeader(text) ==
    LET lines == Split(Strip(text), Newline)
    IN  IF StartsWith(lines[1], Webvtt)
        THEN Join(DropHeader(lines), Newline)
        ELSE text

\* the first line at a position >= i that contains ' --> ', 0 when there is none
RECURSIVE TimingLineFrom(_, _)
TimingLineFrom(lines, i) ==
    IF i > Len(lines) THEN 0
    ELSE IF Contains(lines[i], Arrow) THEN i
    ELSE TimingLineFrom(lines, i + 1)

\* line 131, 1-based: 0 stands for Python's -1
TimingLineIdx(lines) == TimingLineFrom(lines, 1)

\* lines 141-147: parse_time of group g of the match, '.' replaced by ','
GroupTime(timing_match, g) == ParseTime(Replace(timing_match[g], ".", ","))

\* the comparison with its operands swapped
StartAfterEndSwapped(start, end) == end > start

\* line 150
StartAfterEnd(start, end) == start > end

\* line 154
BlockContent(lines, idx) == Strip(Join(SubSeq(lines, idx + 1, Len(lines)), Newline))

\* a timing line that does not match the pattern raises instead of being skipped
BlockOutcomeStrict(block) ==
    IF Strip(block) = <<>> THEN "blank"
    ELSE LET lines == Split(block, Newline)
             idx == TimingLineIdx(lines)
         IN  IF idx = 0 THEN "untimed"
             ELSE LET timing_match == TimingMatch(lines[idx])
                  IN  IF timing_match = <<>> THEN "bad_time"
                      ELSE IF StartAfterEnd(GroupTime(timing_match, 1)[1],
                                            GroupTime(timing_match, 2)[1]) THEN "invalid"
                      ELSE "caption"

\* lines 125-151: what the loop body does with a block
BlockOutcome(block) ==
    IF Strip(block) = <<>> THEN "blank"
    ELSE LET lines == Split(block, Newline)
             idx == TimingLineIdx(lines)
         IN  IF idx = 0 THEN "untimed"
             ELSE LET timing_match == TimingMatch(lines[idx])
                  IN  IF timing_match = <<>> THEN "unmatched"
                      ELSE IF GroupTime(timing_match, 1) = None
                              \/ GroupTime(timing_match, 2) = None THEN "bad_time"
                      ELSE IF StartAfterEnd(GroupTime(timing_match, 1)[1],
                                            GroupTime(timing_match, 2)[1]) THEN "invalid"
                      ELSE "caption"

\* lines 157-162: the dictionary appended to srt_list
RawCaption(block, index) ==
    LET lines == Split(block, Newline)
        idx == TimingLineIdx(lines)
        timing_match == TimingMatch(lines[idx])
    IN  [index |-> index,
         content |-> BlockContent(lines, idx),
         start |-> GroupTime(timing_match, 1)[1],
         end |-> GroupTime(timing_match, 2)[1]]

\* line 112
EmptyInputMessage ==
    [prefix |-> "", cause |-> "The input text provided is empty.", block |-> <<>>]

\* lines 151 and 167: f"Error parsing block: {e}" around
\* f"Start time must be less than or equal to end time in block: {block}"
StartAfterEndMessage(block) ==
    [prefix |-> "Error parsing block: ",
     cause |-> "Start time must be less than or equal to end time in block: ",
     block |-> block]

\* lines 49 and 167
TimeFormatMessage ==
    [prefix |-> "Error parsing block: ",
     cause |-> "Time string is in an incorrect format.",
     block |-> <<>>]

CombineVars == <<pos, current_caption, start_time, combined_list, merged, sources, read_last>>

InBlocks == pc = "blocks" /\ block_idx < Len(blocks)
NextBlock == blocks[block_idx + 1]

\* lines 111-112
RaiseEmptyInput ==
    /\ pc = "parse"
    /\ Strip(srt_string) = <<>>
    /\ pc' = "raised"
    /\ result' = [kind |-> "ValueError", value |-> <<>>, message |-> EmptyInputMessage]
    /\ UNCHANGED <<ParseVars, ArgVars, CombineVars>>

\* lines 115-124
SplitBlocks ==
    /\ pc = "parse"
    /\ Strip(srt_string) # <<>>
    /\ srt_string' = WithoutHeader(srt_string)
    /\ blocks' = Split(srt_string', BlankLine)
    /\ pc' = "blocks"
    /\ UNCHANGED <<block_idx, current_index, ArgVars, CombineVars, result>>

\* line 125: an empty block is ignored
SkipBlankBlock ==
    /\ InBlocks
    /\ BlockOutcome(NextBlock) = "blank"
    /\ block_idx' = block_idx + 1
    /\ UNCHANGED <<pc, srt_string, blocks, current_index, ArgVars, CombineVars, result>>

\* lines 131-133: no line of the block contains ' --> '
SkipUntimedBlock ==
    /\ InBlocks
    /\ BlockOutcome(NextBlock) = "untimed"
    /\ block_idx' = block_idx + 1
    /\ UNCHANGED <<pc, srt_string, blocks, current_index, ArgVars, CombineVars, result>>

\* lines 136-138: the timing line does not match the pattern
SkipUnmatchedBlock ==
    /\ InBlocks
    /\ BlockOutcome(NextBlock) = "unmatched"
    /\ block_idx' = block_idx + 1
    /\ UNCHANGED <<pc, srt_string, blocks, current_index, ArgVars, CombineVars, result>>

\* lines 146-151 and 165-167: parse_time or the start/end check raises; the
\* handler re-raises ValueError
RaiseBlockError ==
    /\ InBlocks
    /\ BlockOutcome(NextBlock) \in {"bad_time", "invalid"}
    /\ pc' = "raised"
    /\ result' = [kind |-> "ValueError", value |-> <<>>,
                  message |-> IF BlockOutcome(NextBlock) = "invalid"
                              THEN StartAfterEndMessage(NextBlock)
                              ELSE TimeFormatMessage]
    /\ UNCHANGED <<ParseVars, ArgVars, CombineVars>>

\* lines 153-163
AppendCaption ==
    /\ InBlocks
    /\ BlockOutcome(NextBlock) = "caption"
    /\ srt_list' = Append(srt_list, RawCaption(NextBlock, current_index))
    /\ current_index' = current_index + 1
    /\ block_idx' = block_idx + 1
    /\ UNCHANGED <<pc, srt_string, blocks, char_limit, millis_limit, CombineVars, result>>

\* line 170: the loop is over, combine_captions(srt_list, char_limit, millis_limit)
CallCombine ==
    /\ pc = "blocks"
    /\ block_idx = Len(blocks)
    /\ pc' = "combine"
    /\ UNCHANGED <<ParseVars, ArgVars, CombineVars, result>>

ParseNext ==
    \/ RaiseEmptyInput
    \/ SplitBlocks
    \/ SkipBlankBlock
    \/ SkipUntimedBlock
    \/ SkipUnmatchedBlock
    \/ RaiseBlockError
    \/ AppendCaption
    \/ CallCombine

Next == ParseNext \/ CombineNext

----------------------------------------------------------------------------
(* Inputs of parse_srt *)

\* "1\n0:0:0,0 --> 0:0:0,1\na"
GoodBlock == <<"1", "\n", "0", ":", "0", ":", "0", ",", "0", " ", "-", "-", ">", " ", "0", ":", "0", ":", "0", ",", "1", "\n", "a">>

\* "0:0:0.1 --> 0:01:01.000\n bc"
DottedBlock == <<"0", ":", "0", ":", "0", ".", "1", " ", "-", "-", ">", " ", "0", ":", "0", "1", ":", "0", "1", ".", "0", "0", "0", "\n", " ", "b", "c">>

\* "2\n0:0:0,1 --> 0:0:0,1"
SilentBlock == <<"2", "\n", "0", ":", "0", ":", "0", ",", "1", " ", "-", "-", ">", " ", "0", ":", "0", ":", "0", ",", "1">>

\* "3\n0:0:0,2 --> 0:0:0,1\nc"
LateBlock == <<"3", "\n", "0", ":", "0", ":", "0", ",", "2", " ", "-", "-", ">", " ", "0", ":", "0", ":", "0", ",", "1", "\n", "c">>

\* "4\n0:0:1 --> 0:0:2\nd"
BadBlock == <<"4", "\n", "0", ":", "0", ":", "1", " ", "-", "-", ">", " ", "0", ":", "0", ":", "2", "\n", "d">>

\* "5\nx"
NoteBlock == <<"5", "\n", "x">>

SampleBlocks == {GoodBlock, DottedBlock, SilentBlock, LateBlock, BadBlock, NoteBlock}

\* "", "WEBVTT\n\n", "WEBVTT\nKind: c\n\n"
Preambles == { <<>>, <<"W", "E", "B", "V", "T", "T", "\n", "\n">>,
               <<"W", "E", "B", "V", "T", "T", "\n", "K", "i", "n", "d", ":", " ", "c", "\n", "\n">> }

Texts ==
    { <<>>, <<" ", "\n">> } \cup
    { h \o Join(bs, BlankLine) :
        h \in Preambles, bs \in UNION { [1..n -> SampleBlocks] : n \in 0..MaxBlocks } }

InitParse ==
    /\ pc = "parse"
    /\ srt_string \in Texts
    /\ blocks = <<>>
    /\ block_idx = 0
    /\ current_index = 1
    /\ srt_list = <<>>
    /\ char_limit \in {None, Some(MaxCharLimit)}
    /\ millis_limit \in {None, Some(0)}
    /\ pos = 0
    /\ current_caption = <<>>
    /\ start_time = 0
    /\ combined_list = <<>>
    /\ merged = <<>>
    /\ sources = <<>>
    /\ read_last = FALSE
    /\ result = [kind |-> "none", value |-> <<>>, message |-> NoMessage]

Spec == InitParse /\ [][Next]_vars

----------------------------------------------------------------------------
(* Properties of combine_captions (specification SpecCombine) *)

\* the positions, in order, of the first n raw captions whose trimmed content is non-empty
RECURSIVE SpokenUpTo(_, _)
SpokenUpTo(list, n) ==
    IF n = 0 THEN <<>>
    ELSE IF Strip(list[n].content) # <<>> THEN Append(SpokenUpTo(list, n - 1), n)
    ELSE SpokenUpTo(list, n - 1)

Spoken == SpokenUpTo(srt_list, Len(srt_list))

Returned == pc = "done" /\ result.kind = "return"

NoLimits == char_limit = None /\ millis_limit = None

\* C1: with both limits absent the result has one caption per raw caption whose
\* trimmed content is non-empty, in the original order, and the content of the k-th
\* is the trimmed content of the k-th such raw caption (nothing is merged).
C1_NoLimitsPassThrough ==
    (Returned /\ NoLimits) =>
        /\ Len(result.value) = Len(Spoken)
        /\ \A k \in 1..Len(Spoken) :
              result.value[k].content = Strip(srt_list[Spoken[k]].content)

\* C1 witness: a call without limits returned two captions and skipped a blank one
C1_Witness ==
    /\ Returned /\ NoLimits
    /\ Len(result.value) >= 2
    /\ Len(Spoken) < Len(srt_list)

NoOuterWhitespace(content) ==
    /\ content # <<>>
    /\ content[1] \notin Whitespace
    /\ content[Len(content)] \notin Whitespace

\* C2: whatever the input and the limits, every caption combine_captions emits has
\* a content that is non-empty and has no leading or trailing whitespace.
C2_EmittedContentTrimmed ==
    /\ \A k \in 1..Len(combined_list) : NoOuterWhitespace(combined_list[k].content)
    /\ Returned => \A k \in 1..Len(result.value) : NoOuterWhitespace(result.value[k].content)

\* C2 witness: both limits set, and a returned caption was merged from raw captions
\* one of which had whitespace around its content
C2_Witness ==
    /\ Returned
    /\ char_limit # None /\ millis_limit # None
    /\ \E k \in 1..Len(result.value) :
          /\ Len(sources[k]) >= 2
          /\ \E j \in 1..Len(sources[k]) :
                srt_list[sources[k][j]].content # Strip(srt_list[sources[k][j]].content)

\* the raw caption that closed the k-th emitted caption: the first one merged into
\* the caption after it
ClosedBy(k) == IF k < Len(sources) THEN sources[k + 1][1] ELSE merged[1]

\* C5: a caption closed because a non-blank raw caption c failed the merge test has
\* the start of the first raw caption merged into it and ends at the start of c, so
\* that each returned caption ends where the next one starts.
C5_ClosedEndsAtNextStart ==
    /\ \A k \in 1..Len(combined_list) :
          (pc = "combine" \/ k < Len(combined_list)) =>
              /\ combined_list[k].start = srt_list[sources[k][1]].start
              /\ combined_list[k].end = srt_list[ClosedBy(k)].start
    /\ \A k \in 1..(Len(combined_list) - 1) :
          combined_list[k].end = combined_list[k + 1].start

\* C5 witness: a caption merged from two raw captions was closed and does not end
\* where the last raw caption merged into it ends
C5_Witness ==
    /\ Returned
    /\ Len(result.value) >= 2
    /\ Len(sources[1]) >= 2
    /\ result.value[1].end # srt_list[sources[1][Len(sources[1])]].end

\* C6: the last caption of a non-empty result ends where the very last raw caption
\* ends, also when that raw caption is blank and was skipped; for an empty input or
\* one with only blank captions the result is empty and srt_list[-1] is never read.
C6_LastEndsAtLastRaw ==
    /\ (Returned /\ result.value # <<>>) =>
          result.value[Len(result.value)].end = srt_list[Len(srt_list)].end
    /\ Spoken = <<>> =>
          /\ ~read_last
          /\ pc # "raised"
          /\ pc = "done" => (result.kind = "return" /\ result.value = <<>>)

\* C6 witness: the last raw caption is blank, was skipped, and ends elsewhere than the
\* last caption that was not skipped
C6_Witness ==
    /\ Returned
    /\ result.value # <<>>
    /\ Strip(srt_list[Len(srt_list)].content) = <<>>
    /\ srt_list[Len(srt_list)].end # srt_list[Spoken[Len(Spoken)]].end

\* the merge condition as the claim states it, for accumulator (t, s) and raw caption c
C7_Condition(t, s, c) ==
    \/ /\ char_limit # None
       /\ Len(t) + 1 + Len(Strip(c.content)) <= char_limit[1]
    \/ /\ millis_limit # None
       /\ c.end - s <= millis_limit[1]

\* C7: with a pending accumulator (t, s) and a non-blank raw caption c, c is merged
\* into the accumulator if and only if char_limit is set and
\* length(t + ' ' + trim(c.content)) <= char_limit, or millis_limit is set and
\* c.end - s <= millis_limit; a merge leaves the accumulator's start unchanged.
C7_MergeIffEitherLimit ==
    [][ (InLoop /\ current_caption # <<>> /\ Strip(NextRaw.content) # <<>>) =>
          LET isMerged == /\ current_caption' =
                               current_caption \o <<" ">> \o Strip(NextRaw.content)
                          /\ combined_list' = combined_list
          IN  /\ isMerged <=> C7_Condition(current_caption, start_time, NextRaw)
              /\ isMerged => start_time' = start_time ]_vars

\* C7 witness: both limits are set, the accumulator holds two raw captions and is
\* longer than char_limit, so the merge rested on millis_limit alone
C7_Witness ==
    /\ pc = "combine"
    /\ char_limit # None /\ millis_limit # None
    /\ Len(merged) >= 2
    /\ Len(current_caption) > char_limit[1]

\* C8: joining the contents of the returned captions with single spaces gives the
\* trimmed contents of the non-blank raw captions joined with single spaces, in
\* input order: no text is lost, duplicated or reordered.
C8_TextPreserved ==
    Returned =>
        Join([k \in 1..Len(result.value) |-> result.value[k].content], <<" ">>)
          = Join([k \in 1..Len(Spoken) |-> Strip(srt_list[Spoken[k]].content)], <<" ">>)

\* C8 witness: a call returned two captions, one of them merged from two raw captions
C8_Witness ==
    /\ Returned
    /\ Len(result.value) >= 2
    /\ \E k \in 1..Len(result.value) : Len(sources[k]) >= 2

\* C9: with char_limit set and millis_limit absent, every caption formed from two
\* or more raw captions is at most char_limit long; only a caption that is a single
\* raw caption's trimmed content may be longer.
C9_MergedWithinCharLimit ==
    (char_limit # None /\ millis_limit = None) =>
        /\ \A k \in 1..Len(combined_list) :
              Len(sources[k]) >= 2 => Len(combined_list[k].content) <= char_limit[1]
        /\ Len(merged) >= 2 => Len(current_caption) <= char_limit[1]

\* C9 witness: under a character limit alone, one returned caption was merged from
\* two raw captions and fills the limit exactly, and another one was closed
C9_Witness ==
    /\ Returned
    /\ char_limit # None /\ millis_limit = None
    /\ Len(result.value) >= 2
    /\ \E k \in 1..Len(result.value) :
          /\ Len(sources[k]) >= 2
          /\ Len(result.value[k].content) = char_limit[1]

\* every raw caption has start <= end and the starts do not decrease
OrderedInput ==
    /\ \A k \in 1..Len(srt_list) : srt_list[k].start <= srt_list[k].end
    /\ \A k \in 1..(Len(srt_list) - 1) : srt_list[k].start <= srt_list[k + 1].start

\* C10: if every raw caption has start <= end and the raw starts do not decrease,
\* every returned caption has start <= end and the returned starts do not decrease.
C10_OrderPreserved ==
    (Returned /\ OrderedInput) =>
        /\ \A k \in 1..Len(result.value) : result.value[k].start <= result.value[k].end
        /\ \A k \in 1..(Len(result.value) - 1) :
              result.value[k].start <= result.value[k + 1].start

\* C10 witness: an ordered input whose raw starts differ gave two captions
C10_Witness ==
    /\ Returned /\ OrderedInput
    /\ Len(result.value) >= 2
    /\ result.value[1].start < result.value[2].start

----------------------------------------------------------------------------
(* Properties of parse_srt (specification Spec) *)

\* the block has a line with ' --> '
HasArrowLine(block) == TimingLineIdx(Split(block, Newline)) # 0

\* the block's timing line, the first one with ' --> ', matches the two-timestamp pattern
HasRecognisedTiming(block) ==
    /\ HasArrowLine(block)
    /\ TimingMatch(Split(block, Newline)[TimingLineIdx(Split(block, Newline))]) # <<>>

\* the block has a recognised timing line whose parsed start is greater than its parsed end
StartsAfterItEnds(block) ==
    /\ Strip(block) # <<>>
    /\ HasRecognisedTiming(block)
    /\ LET timing_match ==
               TimingMatch(Split(block, Newline)[TimingLineIdx(Split(block, Newline))])
       IN  GroupTime(timing_match, 1)[1] > GroupTime(timing_match, 2)[1]

\* the block has a line with ' --> ' whose timestamps do not match the pattern
HasUnmatchedTiming(block) ==
    /\ Strip(block) # <<>>
    /\ HasArrowLine(block)
    /\ ~HasRecognisedTiming(block)

Offenders == {k \in 1..Len(blocks) : StartsAfterItEnds(blocks[k])}

FirstOffender == CHOOSE k \in Offenders : \A j \in Offenders : k <= j

\* C3: if a block has a recognised timing line whose start is greater than its end,
\* parse_srt fails with a format error whose message contains the raw text of the
\* block (the first such one), and no caption is returned, whatever valid blocks come
\* before or after it.
C3_StartAfterEndFails ==
    Offenders # {} =>
        /\ pc \notin {"combine", "done"}
        /\ result.kind \in {"none", "ValueError"}
        /\ combined_list = <<>>
        /\ pc = "raised" =>
              /\ result.kind = "ValueError"
              /\ result.value = <<>>
              /\ Contains(result.message.block, blocks[FirstOffender])

\* C3 witness: the call failed on the second of three blocks, between two valid
\* ones, after the first one had been parsed
C3_Witness ==
    /\ pc = "raised"
    /\ Len(blocks) = 3
    /\ Offenders = {2}
    /\ HasRecognisedTiming(blocks[1]) /\ HasRecognisedTiming(blocks[3])
    /\ Len(srt_list) = 1
    /\ result.message.block = blocks[2]

\* C4 as stated: parse_srt fails when a block has a timing-arrow line whose timestamps
\* do not match the grammar; only blocks without a timing-arrow line are skipped.
C4_UnmatchedTimingFails ==
    (\E k \in 1..Len(blocks) : HasUnmatchedTiming(blocks[k])) => pc # "done"

\* C4 amended: a block with a timing-arrow line whose timestamps do not match the
\* grammar is skipped silently, like a block with no timing-arrow line at all: the
\* raw captions are exactly the blocks with a recognised timing line, and parse_srt
\* fails only on an empty input or on a block whose start is greater than its end.
C4_UnmatchedTimingSkipped ==
    /\ pc \in {"combine", "done"} =>
          Len(srt_list) = Cardinality({k \in 1..Len(blocks) :
                                          Strip(blocks[k]) # <<>> /\ HasRecognisedTiming(blocks[k])})
    /\ pc = "raised" =>
          \/ blocks = <<>> /\ Strip(srt_string) = <<>>
          \/ Offenders # {}

\* C4 witness: a call returned captions although one of its blocks has a timing-arrow
\* line that does not match the grammar
C4_Witness ==
    /\ Returned
    /\ result.value # <<>>
    /\ \E k \in 1..Len(blocks) : HasUnmatchedTiming(blocks[k])

====
